---------------------------- MODULE Spec2Model ----------------------------
(***************************************************************************)
(* Model of the Dartmouth grid code of the isochrones package:             *)
(*   isochrones/dartmouth/grid.py  (DartmouthModelGrid)                    *)
(*   isochrones/dartmouth/tri.py   (tri_filename, write_tri)               *)
(*   isochrones/tests/test_fits.py (_check_saving)                         *)
(* Python strings are TLA+ strings; a character of s is SubSeq(s, i, i).   *)
(***************************************************************************)
EXTENDS Integers, Sequences, FiniteSets, TLC

VARIABLES
    b,          \* get_band: the band token passed in
    bandOut,    \* get_band: NotCalled, Raise, or the returned (phot, band)
    fehName,    \* get_feh: the file name passed in
    fehOut,     \* get_feh: NotCalled, None, or the returned number
    dfName,     \* to_df: the name of the track file passed in
    dfLines,    \* to_df: the lines of that file, each with its line end
    dfOut,      \* to_df: NotCalled, the exception raised, or the table
    gridPhot,   \* df_all: the photometric system passed in
    gridIn,     \* df_all: the table super().df_all(phot) returns
    gridOut,    \* df_all: NotCalled or the table returned
    fsPaths,    \* the paths that exist under the data directory
    nCalls,     \* get_filenames: the number of calls made
    lastCall,   \* get_filenames: the last call, with the paths it found
    prevCall,   \* get_filenames: the call before the last
    triFiles,   \* the triangulation files written, each with its content
    triWrites,  \* write_tri: the calls made with filename=None
    pc,         \* test_fitting: the statement of _check_saving to run next
    mods,       \* test_fitting: the fitted models mod_dar and mod_mist
    cur,        \* test_fitting: which of them _check_saving is checking
    h5Name,     \* _check_saving: filename
    h5Files,    \* the HDF files on disk, each with its content
    h5Open,     \* the names of the HDF files that have an open handle
    newmod      \* _check_saving: the model loaded back

bandVars == <<b, bandOut>>
fehVars == <<fehName, fehOut>>
dfVars == <<dfName, dfLines, dfOut>>
gridVars == <<gridPhot, gridIn, gridOut>>
fileVars == <<fsPaths, nCalls, lastCall, prevCall>>
triVars == <<triFiles, triWrites>>
saveVars == <<pc, mods, cur, h5Name, h5Files, h5Open, newmod>>
vars == <<bandVars, fehVars, dfVars, gridVars, fileVars, triVars, saveVars>>

\* What each operation leaves alone: the state of the others.
notBand == <<fehVars, dfVars, gridVars, fileVars, triVars, saveVars>>
notFeh == <<bandVars, dfVars, gridVars, fileVars, triVars, saveVars>>
notDf == <<bandVars, fehVars, gridVars, fileVars, triVars, saveVars>>
notGrid == <<bandVars, fehVars, dfVars, fileVars, triVars, saveVars>>
notFiles == <<bandVars, fehVars, dfVars, gridVars, triVars, saveVars>>
notTri == <<bandVars, fehVars, dfVars, gridVars, fileVars, saveVars>>
notSave == <<bandVars, fehVars, dfVars, gridVars, fileVars, triVars>>

(***************************************************************************)
(* Strings and the character classes of the regular expressions            *)
(***************************************************************************)
\* What a call has produced so far: nothing yet, an exception, or a value.
NotCalled == [kind |-> "not-called"]
Raise == [kind |-> "raise"]
None == [kind |-> "none"]

Lower == {"a","b","c","d","e","f","g","h","i","j","k","l","m",
          "n","o","p","q","r","s","t","u","v","w","x","y","z"}
Upper == {"A","B","C","D","E","F","G","H","I","J","K","L","M",
          "N","O","P","Q","R","S","T","U","V","W","X","Y","Z"}
Digit == {"0","1","2","3","4","5","6","7","8","9"}
\* [a-zA-Z]
Alpha == Lower \cup Upper
\* [a-zA-Z_]
AlphaUnder == Alpha \cup {"_"}
\* [a-zA-Z\d]
AlphaDigit == Alpha \cup Digit
\* [a-zA-Z_\d]
AlphaUnderDigit == Alpha \cup Digit \cup {"_"}

\* s[i-1:i] of Python (1-based here): "" past the end of s
CharAt(s, i) == IF 1 <= i /\ i <= Len(s) THEN SubSeq(s, i, i) ELSE ""

\* s.startswith(p)
StartsWith(s, p) == Len(p) <= Len(s) /\ SubSeq(s, 1, Len(p)) = p

\* s[i-1:i-1+n] when s has that many characters, else "": what a literal of
\* n characters is compared with at position i.
Slice(s, i, n) == IF 1 <= i /\ i + n - 1 <= Len(s) THEN SubSeq(s, i, i + n - 1) ELSE ""

\* A greedy class+ of a regular expression started at position i: the first
\* position after the longest run of characters of cls.
RECURSIVE RunEnd(_, _, _)
RunEnd(s, i, cls) ==
    IF i <= Len(s) /\ CharAt(s, i) \in cls THEN RunEnd(s, i + 1, cls) ELSE i

(***************************************************************************)
(* DartmouthModelGrid: the class tables                                    *)
(***************************************************************************)
phot_systems == {"SDSSugriz", "UBVRIJHKsKp", "WISE", "LSST", "UKIDSS", "HST_WFPC2"}

phot_bands ==
    [phot \in phot_systems |->
        CASE phot = "SDSSugriz" -> {"sdss_z", "sdss_i", "sdss_r", "sdss_u", "sdss_g"}
          [] phot = "UBVRIJHKsKp" -> {"B", "I", "H", "J", "Ks", "R", "U", "V", "D51", "Kp"}
          [] phot = "WISE" -> {"W4", "W3", "W2", "W1"}
          [] phot = "LSST" -> {"LSST_r", "LSST_u", "LSST_y", "LSST_z", "LSST_g", "LSST_i"}
          [] phot = "UKIDSS" -> {"Y", "H", "K", "J", "Z"}
          [] phot = "HST_WFPC2" -> {"WFPC2_F555W", "WFPC2_F606W", "WFPC2_F814W"}]

(***************************************************************************)
(* DartmouthModelGrid.get_band                                             *)
(***************************************************************************)
Pair(phot, band) == [kind |-> "ok", phot |-> phot, band |-> band]

\* m = re.match('([a-zA-Z]+)_([a-zA-Z_]+)', b): the ends of the two groups,
\* and whether the match succeeds.
M1End(s) == RunEnd(s, 1, Alpha)
M2End(s) == RunEnd(s, M1End(s) + 1, AlphaUnder)
MMatches(s) ==
    /\ M1End(s) > 1
    /\ CharAt(s, M1End(s)) = "_"
    /\ M2End(s) > M1End(s) + 1
MGroup1(s) == SubSeq(s, 1, M1End(s) - 1)
MGroup2(s) == SubSeq(s, M1End(s) + 1, M2End(s) - 1)

\* m2 = re.match('HST_([a-zA-Z\d]+)_([a-zA-Z_\d]+)', b)
H1End(s) == RunEnd(s, 5, AlphaDigit)
H2End(s) == RunEnd(s, H1End(s) + 1, AlphaUnderDigit)
M2Matches(s) ==
    /\ StartsWith(s, "HST_")
    /\ H1End(s) > 5
    /\ CharAt(s, H1End(s)) = "_"
    /\ H2End(s) > H1End(s) + 1
M2Group1(s) == SubSeq(s, 5, H1End(s) - 1)
M2Group2(s) == SubSeq(s, H1End(s) + 1, H2End(s) - 1)

\* PrefixedBand without the membership tests on group(1): every
\* '<letters>_<letters>' token resolves.
PrefixedBandUnchecked(s) ==
    IF MMatches(s) THEN Pair(MGroup1(s), MGroup2(s)) ELSE Raise

\* The else branch of get_band: the result left by `if m:`, then overwritten
\* by `if m2:` when the HST system is known.
PrefixedBand(s) ==
    LET afterM ==
            IF MMatches(s)
            THEN IF MGroup1(s) \in phot_systems
                 THEN Pair(MGroup1(s), IF MGroup1(s) = "LSST" THEN s ELSE MGroup2(s))
                 ELSE IF MGroup1(s) \in {"UK", "UKIRT"}
                      THEN Pair("UKIDSS", MGroup2(s))
                      ELSE Raise
            ELSE Raise
    IN  IF M2Matches(s) /\ ("HST_" \o M2Group1(s)) \in phot_systems
        THEN Pair("HST_" \o M2Group1(s), M2Group1(s) \o "_" \o M2Group2(s))
        ELSE afterM

\* The if/elif chain of the short names; Raise stands for "phot is None".
DirectBand(s) ==
    IF s \in {"u", "g", "r", "i", "z"} THEN Pair("SDSSugriz", "sdss_" \o s)
    ELSE IF s \in {"U", "B", "V", "R", "I", "J", "H", "Ks"} THEN Pair("UBVRIJHKsKp", s)
    ELSE IF s = "K" THEN Pair("UBVRIJHKsKp", "Ks")
    ELSE IF s \in {"kep", "Kepler", "Kp"} THEN Pair("UBVRIJHKsKp", "Kp")
    ELSE IF s \in {"W1", "W2", "W3", "W4"} THEN Pair("WISE", s)
    ELSE IF s \in {"F555W", "F606W", "F814W"} THEN Pair("HST_WFPC2", "WFPC2_" \o s)
    ELSE IF s \in {"WFPC2_F555W", "WFPC2_F606W", "WFPC2_F814W"} THEN Pair("HST_WFPC2", s)
    ELSE Raise

get_band(s) == IF DirectBand(s) # Raise THEN DirectBand(s) ELSE PrefixedBand(s)

\* The band tokens the callers are drawn from: the short names, every
\* canonical band name, every '<prefix>_<band>' combination, and some
\* tokens no rule knows.
ShortNames ==
    {"u", "g", "r", "i", "z", "U", "B", "V", "R", "I", "J", "H", "Ks", "K",
     "kep", "Kepler", "Kp", "W1", "W2", "W3", "W4", "F555W", "F606W", "F814W"}
CanonicalNames == UNION {phot_bands[p] : p \in phot_systems}
Prefixes == phot_systems \cup {"UK", "UKIRT", "HST", "HST_ACS", "sdss", "TwoMASS", "X1"}
OddTokens ==
    {"", "_", "x", "Q", "gg", "w1", "W5", "F435W", "g_", "_g", "WISE_", "WISE_1",
     "HST_", "HST_WFPC2", "HST_WFPC2_", "HST__F555W", "UK_", "LSST", "2MASS_J",
     "SDSSugriz-g", "kepler", "D51", "Ks_"}
BandTokens ==
    ShortNames \cup CanonicalNames \cup OddTokens
    \cup {p \o "_" \o n : p \in Prefixes, n \in ShortNames \cup CanonicalNames}

BandInit == b \in BandTokens /\ bandOut = NotCalled
BandIdle == b = "" /\ bandOut = NotCalled

GetBand ==
    /\ bandOut = NotCalled
    /\ bandOut' = get_band(b)
    /\ UNCHANGED b
    /\ UNCHANGED notBand

(***************************************************************************)
(* C1, C10: get_band                                                       *)
(***************************************************************************)
\* The alias rules, stated on the token's shape: a short name, a canonical
\* WFPC2 name, '<system>_' or 'UK_' / 'UKIRT_' followed by a letter or an
\* underscore, or 'HST_WFPC2_' followed by a letter, digit or underscore.
LetterSystems == {"SDSSugriz", "UBVRIJHKsKp", "WISE", "LSST", "UKIDSS", "UK", "UKIRT"}
MatchesAnAliasRule(s) ==
    \/ s \in ShortNames
    \/ s \in {"WFPC2_F555W", "WFPC2_F606W", "WFPC2_F814W"}
    \/ \E p \in LetterSystems :
          StartsWith(s, p \o "_") /\ CharAt(s, Len(p) + 2) \in AlphaUnder
    \/ StartsWith(s, "HST_WFPC2_") /\ CharAt(s, 11) \in AlphaUnderDigit

\* C1: get_band('g') = ('SDSSugriz', 'sdss_g'), get_band('K') =
\* ('UBVRIJHKsKp', 'Ks'), get_band('F555W') = ('HST_WFPC2', 'WFPC2_F555W'),
\* and every token that matches none of the alias rules raises the
\* 'cannot resolve band' error (and only such tokens raise).
C1_AliasTable ==
    bandOut # NotCalled =>
        /\ b = "g" => bandOut = Pair("SDSSugriz", "sdss_g")
        /\ b = "K" => bandOut = Pair("UBVRIJHKsKp", "Ks")
        /\ b = "F555W" => bandOut = Pair("HST_WFPC2", "WFPC2_F555W")
        /\ (bandOut = Raise) <=> ~MatchesAnAliasRule(b)

\* A token of the '<letters>_<letters>' shape whose prefix is no system
\* has been passed in and has raised.
C1_Witness == b = "sdss_g" /\ bandOut = Raise

\* C10: every pair get_band returns is consistent with the band tables:
\* phot is in phot_systems and band is in phot_bands[phot].
C10_BandInTables ==
    bandOut.kind = "ok" =>
        /\ bandOut.phot \in phot_systems
        /\ bandOut.band \in phot_bands[bandOut.phot]

(***************************************************************************)
(* DartmouthModelGrid.get_feh                                              *)
(***************************************************************************)
DigitValue(c) ==
    CASE c = "0" -> 0 [] c = "1" -> 1 [] c = "2" -> 2 [] c = "3" -> 3 [] c = "4" -> 4
      [] c = "5" -> 5 [] c = "6" -> 6 [] c = "7" -> 7 [] c = "8" -> 8 [] c = "9" -> 9

\* The number a string of decimal digits denotes (leading zeros allowed).
RECURSIVE DecimalValue(_)
DecimalValue(d) ==
    IF d = "" THEN 0
    ELSE 10 * DecimalValue(SubSeq(d, 1, Len(d) - 1)) + DigitValue(CharAt(d, Len(d)))

\* 'feh([mp])(\d+)afe' tried at position i: 'feh', a sign letter, the
\* longest run of digits (not empty), then 'afe'.
FehDigitsEnd(s, i) == RunEnd(s, i + 4, Digit)
FehMatchesAt(s, i) ==
    /\ Slice(s, i, 3) = "feh"
    /\ CharAt(s, i + 3) \in {"m", "p"}
    /\ FehDigitsEnd(s, i) > i + 4
    /\ Slice(s, FehDigitsEnd(s, i), 3) = "afe"

\* re.search: the leftmost position where the pattern matches, 0 for no match.
RECURSIVE FehSearch(_, _)
FehSearch(s, i) ==
    IF i > Len(s) THEN 0
    ELSE IF FehMatchesAt(s, i) THEN i ELSE FehSearch(s, i + 1)

\* A returned metallicity, kept exactly as the number of tenths: the value
\* is tenths / 10.
Feh(tenths) == [kind |-> "ok", tenths |-> tenths]

\* The sign taken from the wrong letter.
FehSignSwapped(letter) == IF letter = "m" THEN 1 ELSE -1

\* sign = 1 if m.group(1)=='p' else -1
FehSign(letter) == IF letter = "p" THEN 1 ELSE -1

get_feh(s) ==
    LET i == FehSearch(s, 1)
    IN  IF i = 0 THEN None
        ELSE Feh(DecimalValue(SubSeq(s, i + 4, FehDigitsEnd(s, i) - 1))
                 * FehSign(CharAt(s, i + 3)))

\* The file names get_feh is called with: a directory part, the stem, a
\* sign letter, the digits and what follows them.
FehDirs == {"", "dartmouth/isochrones/SDSSugriz/", "fehp07afep0/", "xfeh"}
FehStems == {"feh", "Feh", "fe"}
FehSigns == {"m", "p", "x", ""}
FehDigits == {"", "5", "05", "00", "10", "25", "123"}
FehRests == {"afep0.SDSSugriz", "afem2.WISE_2", ".SDSSugriz", "aFep0.LSST", "af", ""}
FehNames ==
    {d \o st \o sg \o dg \o r :
        d \in FehDirs, st \in FehStems, sg \in FehSigns, dg \in FehDigits, r \in FehRests}

FehInit == fehName \in FehNames /\ fehOut = NotCalled
FehIdle == fehName = "" /\ fehOut = NotCalled

GetFeh ==
    /\ fehOut = NotCalled
    /\ fehOut' = get_feh(fehName)
    /\ UNCHANGED fehName
    /\ UNCHANGED notFeh

(***************************************************************************)
(* C5: get_feh                                                             *)
(***************************************************************************)
\* 'feh' + sign letter + two digits at position i
TwoDigitPatternAt(s, i) ==
    /\ Slice(s, i, 3) = "feh"
    /\ CharAt(s, i + 3) \in {"m", "p"}
    /\ CharAt(s, i + 4) \in Digit
    /\ CharAt(s, i + 5) \in Digit
TwoDigitPositions(s) == {i \in 1..Len(s) : TwoDigitPatternAt(s, i)}

\* C5 as claimed: the pattern is 'feh' + sign letter + two-digit magnitude;
\* the result is the two-digit number / 10 with the letter's sign, and None
\* for every name that lacks the pattern.
C5_TwoDigitPattern ==
    fehOut # NotCalled =>
        IF TwoDigitPositions(fehName) = {}
        THEN fehOut = None
        ELSE \E i \in TwoDigitPositions(fehName) :
                fehOut = Feh((10 * DigitValue(CharAt(fehName, i + 4))
                              + DigitValue(CharAt(fehName, i + 5)))
                             * (IF CharAt(fehName, i + 3) = "p" THEN 1 ELSE -1))

\* An occurrence of 'feh' + sign letter + digits + 'afe': it starts at i and
\* its digits end at j.
FehOccurrence(s, i, j) ==
    /\ Slice(s, i, 3) = "feh"
    /\ CharAt(s, i + 3) \in {"m", "p"}
    /\ j >= i + 4
    /\ \A k \in (i + 4)..j : CharAt(s, k) \in Digit
    /\ Slice(s, j + 1, 3) = "afe"
FehOccurrences(s) ==
    {ij \in (1..Len(s)) \X (1..Len(s)) : FehOccurrence(s, ij[1], ij[2])}

\* C5 as amended: the pattern is 'feh' + sign letter + one or more digits +
\* 'afe'; the result is the number the digits of the leftmost occurrence
\* denote, divided by 10, times +1 for 'p' and -1 for 'm'; None
\* exactly when the pattern occurs nowhere in the name.
C5_DigitsThenAfe ==
    fehOut # NotCalled =>
        IF FehOccurrences(fehName) = {}
        THEN fehOut = None
        ELSE \E ij \in FehOccurrences(fehName) :
                /\ \A o \in FehOccurrences(fehName) : ij[1] <= o[1]
                /\ fehOut = Feh(DecimalValue(SubSeq(fehName, ij[1] + 4, ij[2]))
                                * (IF CharAt(fehName, ij[1] + 3) = "p" THEN 1 ELSE -1))

\* A name with a one-digit magnitude has been given a number.
C5_Witness == fehName = "fehm5afep0.SDSSugriz" /\ fehOut = Feh(-5)

(***************************************************************************)
(* DartmouthModelGrid.to_df                                                *)
(***************************************************************************)
\* \s of the regular expressions, and the default delimiter of recfromtxt
Space == {" ", "\t", "\n"}

\* skip_header=8
SkipHeader == 8

\* The position of the first '#' of a line, Len + 1 when it has none.
RECURSIVE FirstHash(_, _)
FirstHash(line, i) ==
    IF i > Len(line) \/ CharAt(line, i) = "#" THEN i ELSE FirstHash(line, i + 1)

\* A line with every '#' deleted: ''.join(line.split('#')[1:]) applied to
\* the part after the first '#'.
RECURSIVE Dehash(_)
Dehash(t) ==
    IF t = "" THEN ""
    ELSE (IF CharAt(t, 1) = "#" THEN "" ELSE CharAt(t, 1)) \o Dehash(SubSeq(t, 2, Len(t)))

\* The number of whitespace-separated values of a text.
NumValues(t) ==
    Cardinality({k \in 1..Len(t) :
        /\ CharAt(t, k) \notin Space
        /\ (k = 1 \/ CharAt(t, k - 1) \in Space)})

\* The values recfromtxt reads from a data line: the text before the first
\* '#', split on whitespace.
RowValues(line) == NumValues(SubSeq(line, 1, FirstHash(line, 1) - 1))

\* The values recfromtxt reads from a candidate names line (names=True): a
\* comment character is dropped and the text after it is split.
NameValues(line) ==
    IF FirstHash(line, 1) <= Len(line)
    THEN NumValues(Dehash(SubSeq(line, FirstHash(line, 1) + 1, Len(line))))
    ELSE NumValues(line)

\* The first line after the skipped header that holds values: the names
\* line. 0 when there is none.
RECURSIVE NamesLineAt(_, _)
NamesLineAt(lines, k) ==
    IF k > Len(lines) THEN 0
    ELSE IF NameValues(lines[k]) > 0 THEN k ELSE NamesLineAt(lines, k + 1)

\* np.recfromtxt(filename, skip_header=8, names=True): the number of rows
\* of the record array, or Raise. It raises when the file ends before a
\* names line is found and when a row has not as many values as there are
\* names; lines that are empty once the comment is removed are skipped.
recfromtxt(lines) ==
    LET nm == NamesLineAt(lines, SkipHeader + 1)
        rows == {k \in (nm + 1)..Len(lines) : RowValues(lines[k]) > 0}
    IN  IF Len(lines) < SkipHeader \/ nm = 0 THEN Raise
        ELSE IF \E k \in rows : RowValues(lines[k]) # NameValues(lines[nm]) THEN Raise
        ELSE [kind |-> "ok", n |-> Cardinality(rows)]

\* re.match('#', line)
IsComment(line) == StartsWith(line, "#")

\* re.search('\d', line)
HasDigit(line) == \E k \in 1..Len(line) : CharAt(line, k) \in Digit

\* The marker pattern without its \s*: '#AGE=(\d+\.\d+)\s+'
AgeIntStartNoSpace(line) == 6

\* re.match('#AGE=\s*(\d+\.\d+)\s+', line): where the integer digits start
\* and end, where the fraction digits end, and whether the match succeeds.
AgeIntStart(line) == RunEnd(line, 6, Space)
AgeIntEnd(line) == RunEnd(line, AgeIntStart(line), Digit)
AgeFracEnd(line) == RunEnd(line, AgeIntEnd(line) + 1, Digit)
AgeMarkerMatches(line) ==
    /\ StartsWith(line, "#AGE=")
    /\ AgeIntEnd(line) > AgeIntStart(line)
    /\ CharAt(line, AgeIntEnd(line)) = "."
    /\ AgeFracEnd(line) > AgeIntEnd(line) + 1
    /\ CharAt(line, AgeFracEnd(line)) \in Space

\* 10^k
RECURSIVE Pow10(_)
Pow10(k) == IF k <= 0 THEN 1 ELSE 10 * Pow10(k - 1)

\* float(m.group(1)), kept exactly as a number of thousandths of a Gyr
\* (the track files give ages with at most three decimals).
MilliPerUnit == 1000
MarkerAge(line) ==
    LET ip == SubSeq(line, AgeIntStart(line), AgeIntEnd(line) - 1)
        fp == SubSeq(line, AgeIntEnd(line) + 1, AgeFracEnd(line) - 1)
    IN  DecimalValue(ip) * MilliPerUnit
        + (IF Len(fp) <= 3 THEN DecimalValue(fp) * Pow10(3 - Len(fp))
           ELSE DecimalValue(SubSeq(fp, 1, 3)))

\* The loop over the lines of the file, from line k on, with the loop's
\* curage, i and ages: the ages array at the end, or the IndexError of
\* ages[i] = curage with i past the end of the array.
RECURSIVE AgeScan(_, _, _, _, _)
AgeScan(lines, k, curage, i, ages) ==
    IF k > Len(lines) THEN [kind |-> "ok", ages |-> ages]
    ELSE IF IsComment(lines[k])
         THEN AgeScan(lines, k + 1,
                      IF AgeMarkerMatches(lines[k]) THEN MarkerAge(lines[k]) ELSE curage,
                      i, ages)
         ELSE IF HasDigit(lines[k])
              THEN IF i >= Len(ages) THEN [kind |-> "IndexError"]
                   ELSE AgeScan(lines, k + 1, curage, i + 1,
                                [ages EXCEPT ![i + 1] = curage])
              ELSE AgeScan(lines, k + 1, curage, i, ages)

\* print('Error reading {}!'.format(filename)); raise RuntimeError
ReadError(filename) ==
    [kind |-> "RuntimeError", printed |-> "Error reading " \o filename \o "!"]

\* The table to_df returns: its number of rows, its age column (in
\* thousandths of a Gyr) and the value of its feh column.
to_df(filename, lines) ==
    LET rec == recfromtxt(lines)
    IN  IF rec = Raise THEN ReadError(filename)
        ELSE LET scan == AgeScan(lines, 1, 0, 0, [j \in 1..rec.n |-> 0])
             IN  IF scan.kind # "ok" THEN scan
                 ELSE [kind |-> "ok", n |-> rec.n, ages |-> scan.ages,
                       feh |-> get_feh(filename)]

\* The lines the track files are made of.
RuleLine == "#--------\n"
Marker250 == "#AGE= 0.250 EEPS=2\n"
Marker1000 == "#AGE=1.000 EEPS=2\n"
Marker10000 == "#AGE=10.000 EEPS=2\n"
BadMarker == "#AGE=12 EEPS=2\n"
ColumnsLine == "#EEP MMo\n"
DataRow == "  2 0.10\n"
ShortRow == "  3\n"
BlankLine == "\n"
NanRow == "nan nan\n"
IndentedNote == "  # 3 rows\n"

\* The files to_df is called on: seven header lines, an eighth that is the
\* first marker (or a malformed one), the column names (or none), and up to
\* MaxBody further lines; and two files that end inside the header.
MaxBody == 4
BodyLines ==
    {DataRow, ShortRow, Marker1000, Marker10000, BadMarker, ColumnsLine, BlankLine,
     NanRow, IndentedNote}
Bodies == UNION {[1..k -> BodyLines] : k \in 0..MaxBody}
Header(l8) == [k \in 1..SkipHeader |-> IF k < SkipHeader THEN RuleLine ELSE l8]
TrackFiles ==
    {Header(l8) \o nm \o body :
        l8 \in {Marker250, BadMarker}, nm \in {<<ColumnsLine>>, <<>>}, body \in Bodies}
    \cup {<<>>, <<RuleLine, Marker250>>}
TrackNames == {"fehm05afep0.SDSSugriz"}

DfInit == dfName \in TrackNames /\ dfLines \in TrackFiles /\ dfOut = NotCalled
DfIdle == dfName = "" /\ dfLines = <<>> /\ dfOut = NotCalled

ToDf ==
    /\ dfOut = NotCalled
    /\ dfOut' = to_df(dfName, dfLines)
    /\ UNCHANGED <<dfName, dfLines>>
    /\ UNCHANGED notDf

(***************************************************************************)
(* C2, C6: to_df                                                           *)
(***************************************************************************)
\* A track file in the format of the grid: seven header lines, the first
\* marker as the eighth, the column names, then markers, column names, data
\* rows and blank lines.
ValidBodyLines == {DataRow, Marker1000, Marker10000, ColumnsLine, BlankLine}
ValidTrackFile(lines) ==
    /\ Len(lines) > SkipHeader
    /\ \A k \in 1..(SkipHeader - 1) : lines[k] = RuleLine
    /\ lines[SkipHeader] = Marker250
    /\ lines[SkipHeader + 1] = ColumnsLine
    /\ \A k \in (SkipHeader + 2)..Len(lines) : lines[k] \in ValidBodyLines

\* The age each marker line states, in thousandths of a Gyr.
Markers == {Marker250, Marker1000, Marker10000}
WrittenAge(line) ==
    CASE line = Marker250 -> 250
      [] line = Marker1000 -> 1000
      [] line = Marker10000 -> 10000

DataPositions(lines) == {k \in 1..Len(lines) : lines[k] = DataRow}
MarkerPositions(lines) == {k \in 1..Len(lines) : lines[k] \in Markers}
\* The last marker before line k, and the first marker after line p (or the
\* end of the file).
LastMarkerBefore(lines, k) ==
    CHOOSE p \in MarkerPositions(lines) :
        p < k /\ \A q \in MarkerPositions(lines) : q < k => q <= p
NextMarkerAfter(lines, p) ==
    IF \E q \in MarkerPositions(lines) : q > p
    THEN CHOOSE q \in MarkerPositions(lines) :
            q > p /\ \A r \in MarkerPositions(lines) : r > p => q <= r
    ELSE Len(lines) + 1

\* C2: for a track file in the grid's format, to_df gives the j-th data row
\* the age of the last '#AGE=' marker before it, and the number of rows
\* that carry a marker's age is the number of data rows between that marker
\* and the next (for a marker whose age no other marker of the file states).
C2_AgeOfLastMarker ==
    (dfOut # NotCalled /\ ValidTrackFile(dfLines)) =>
        /\ dfOut.kind = "ok"
        /\ dfOut.n = Cardinality(DataPositions(dfLines))
        /\ Len(dfOut.ages) = dfOut.n
        /\ \A k \in DataPositions(dfLines) :
              dfOut.ages[Cardinality({q \in DataPositions(dfLines) : q <= k})]
                = WrittenAge(dfLines[LastMarkerBefore(dfLines, k)])
        /\ \A p \in MarkerPositions(dfLines) :
              (\A q \in MarkerPositions(dfLines) \ {p} :
                    WrittenAge(dfLines[q]) # WrittenAge(dfLines[p]))
              => Cardinality({j \in 1..dfOut.n : dfOut.ages[j] = WrittenAge(dfLines[p])})
                 = Cardinality({k \in DataPositions(dfLines) :
                                    p < k /\ k < NextMarkerAfter(dfLines, p)})

\* A file of two blocks has been read: one row under the header's marker,
\* two under the next.
C2_Witness ==
    /\ dfLines = Header(Marker250) \o <<ColumnsLine, DataRow, Marker1000, DataRow, DataRow>>
    /\ dfOut.kind = "ok"
    /\ dfOut.ages = <<250, 1000, 1000>>

\* C6: to_df fails with the data-format error that names the file whenever
\* an AGE marker is malformed or the file has no parseable data rows; it
\* returns no table then.
HasMalformedMarker(lines) ==
    \E k \in 1..Len(lines) : StartsWith(lines[k], "#AGE=") /\ lines[k] \notin Markers
HasNoDataRows(lines) == \A k \in 1..Len(lines) : lines[k] \notin {DataRow, NanRow}
C6_FailsOnMalformedFile ==
    (dfOut # NotCalled /\ (HasMalformedMarker(dfLines) \/ HasNoDataRows(dfLines)))
        => dfOut = ReadError(dfName)

(***************************************************************************)
(* DartmouthModelGrid.df_all                                               *)
(***************************************************************************)
\* A positive real kept exactly as m * 10^e, and its base-10 logarithm kept
\* exactly as whole + log10(mant / 10^4) with 10^4 <= mant < 10^5.
Sci(m, e) == [m |-> m, e |-> e]
LogVal(whole, mant) == [whole |-> whole, mant |-> mant]

\* The number of decimal digits of a positive integer.
RECURSIVE NumDigits(_)
NumDigits(x) == IF x < 10 THEN 1 ELSE 1 + NumDigits(x \div 10)

\* df.age * 1e6: the unit taken for Myr
TimesMega(a) == Sci(a, 3)

\* df.age * 1e9, for an age a in thousandths of a Gyr: a * 10^6 years
TimesGiga(a) == Sci(a, 6)

\* np.log10
log10(x) ==
    LET d == NumDigits(x.m)
    IN  LogVal(x.e + d - 1, x.m * Pow10(5 - d))

\* The order of two logarithms, and of two rows by ['feh','age','MMo','EEP'].
LogLess(u, v) == u.whole < v.whole \/ (u.whole = v.whole /\ u.mant < v.mant)

\* Rows compared by ['feh','age'] alone.
RowLessFehAge(r, t) ==
    \/ r.feh < t.feh
    \/ r.feh = t.feh /\ LogLess(r.age, t.age)

RowLess(r, t) ==
    \/ r.feh < t.feh
    \/ r.feh = t.feh /\ LogLess(r.age, t.age)
    \/ r.feh = t.feh /\ r.age = t.age /\ r.MMo < t.MMo
    \/ r.feh = t.feh /\ r.age = t.age /\ r.MMo = t.MMo /\ r.EEP < t.EEP

\* df.sort_values(by=['feh','age','MMo','EEP']): each row is put after the
\* rows already placed that are not greater than it.
RECURSIVE InsertRow(_, _)
InsertRow(sorted, r) ==
    IF sorted = <<>> THEN <<r>>
    ELSE IF RowLess(r, Head(sorted)) THEN <<r>> \o sorted
         ELSE <<Head(sorted)>> \o InsertRow(Tail(sorted), r)
RECURSIVE sort_values(_)
sort_values(rows) ==
    IF rows = <<>> THEN <<>>
    ELSE InsertRow(sort_values(SubSeq(rows, 1, Len(rows) - 1)), rows[Len(rows)])

\* df.loc[:,'age'] = np.log10(df.age * 1e9)
ConvertAge(r) == [r EXCEPT !.age = log10(TimesGiga(r.age))]

common_columns == <<"EEP", "MMo", "LogTeff", "LogG", "LogLLo", "age", "feh">>

\* The magnitude columns of the track files of a system.
FileBands(phot) ==
    IF phot = "HST_WFPC2" THEN <<"F555W", "F606W", "F814W">>
    ELSE <<"sdss_u", "sdss_g", "sdss_r", "sdss_i", "sdss_z">>

\* The renaming of the columns that start with "F", for HST_WFPC2 only.
RenameColumns(phot, cols) ==
    IF phot = "HST_WFPC2"
    THEN [k \in 1..Len(cols) |->
            IF CharAt(cols[k], 1) = "F" THEN "WFPC2_" \o cols[k] ELSE cols[k]]
    ELSE cols

\* The table df_all returns: its rows in order, its row index, its columns.
df_all(phot, table) ==
    LET rows == sort_values([k \in 1..Len(table) |-> ConvertAge(table[k])])
    IN  [kind |-> "ok",
         rows |-> rows,
         index |-> [k \in 1..Len(rows) |-> <<rows[k].feh, rows[k].age>>],
         columns |-> RenameColumns(phot, common_columns \o FileBands(phot))]

\* The rows the merged table is made of: feh in tenths, age in thousandths
\* of a Gyr as to_df leaves it, mass in hundredths of a solar mass, EEP.
GridRow(feh, age, mmo, eep) == [feh |-> feh, age |-> age, MMo |-> mmo, EEP |-> eep]
GridRows ==
    {GridRow(f, a, me[1], me[2]) :
        f \in {-5, 0}, a \in {250, 1000, 10000}, me \in {<<10, 2>>, <<95, 3>>, <<95, 4>>}}
MaxRows == 3
GridTables == UNION {[1..k -> GridRows] : k \in 0..MaxRows}

GridInit ==
    /\ gridPhot \in {"SDSSugriz", "HST_WFPC2"}
    /\ gridIn \in GridTables
    /\ gridOut = NotCalled
GridIdle == gridPhot = "" /\ gridIn = <<>> /\ gridOut = NotCalled

DfAll ==
    /\ gridOut = NotCalled
    /\ gridOut' = df_all(gridPhot, gridIn)
    /\ UNCHANGED <<gridPhot, gridIn>>
    /\ UNCHANGED notGrid

(***************************************************************************)
(* C3, C8: df_all                                                          *)
(***************************************************************************)
\* v is the base-10 logarithm of the number of years in a thousandths of a
\* Gyr: 10^v.whole * (v.mant / 10^4) = a * 10^6.
IsLog10OfYears(v, a) ==
    /\ v.mant \in 10000..99999
    /\ v.whole >= 6
    /\ Pow10(v.whole - 6) * v.mant = a * 10000

\* C3: every row of the merged table holds log10(a * 10^9) for the age a
\* (in Gyr) the loader parsed for it: the rows of the result are the rows of
\* the input, each with its age so converted; 1.0 becomes 9.0 and 10.0
\* becomes 10.0.
C3_AgeIsLog10Years ==
    gridOut # NotCalled =>
        /\ Len(gridOut.rows) = Len(gridIn)
        /\ \A x \in GridRows :
              Cardinality({k \in 1..Len(gridIn) : gridIn[k] = x})
              = Cardinality({k \in 1..Len(gridOut.rows) :
                    /\ gridOut.rows[k].feh = x.feh
                    /\ gridOut.rows[k].MMo = x.MMo
                    /\ gridOut.rows[k].EEP = x.EEP
                    /\ IsLog10OfYears(gridOut.rows[k].age, x.age)})
        /\ \A k \in 1..Len(gridIn) :
              /\ gridIn[k].age = 1000 =>
                    \E j \in 1..Len(gridOut.rows) : gridOut.rows[j].age = LogVal(9, 10000)
              /\ gridIn[k].age = 10000 =>
                    \E j \in 1..Len(gridOut.rows) : gridOut.rows[j].age = LogVal(10, 10000)

\* A table with ages 1.0, 10.0 and 0.25 Gyr has been converted.
C3_Witness ==
    /\ gridIn = <<GridRow(0, 1000, 10, 2), GridRow(0, 10000, 10, 2), GridRow(0, 250, 10, 2)>>
    /\ gridOut.kind = "ok"
    /\ gridOut.rows[1].age = LogVal(8, 25000)
    /\ gridOut.rows[2].age = LogVal(9, 10000)
    /\ gridOut.rows[3].age = LogVal(10, 10000)

DistinctRows(table) == \A i, j \in 1..Len(table) : i # j => table[i] # table[j]

\* C8 as claimed: for input rows with distinct (feh, age, MMo, EEP), no two
\* rows of the result carry the same index key.
C8_IndexUnique ==
    (gridOut # NotCalled /\ DistinctRows(gridIn)) =>
        \A i, j \in 1..Len(gridOut.index) : i # j => gridOut.index[i] # gridOut.index[j]

\* C8 as amended: the rows are sorted by (feh, age, MMo, EEP), strictly for
\* input rows with distinct tuples, and the index key of a row is its
\* (feh, age) pair, so two rows carry the same key exactly when they agree
\* on feh and on age.
C8_SortedWithFehAgeIndex ==
    gridOut # NotCalled =>
        /\ Len(gridOut.index) = Len(gridOut.rows)
        /\ \A i \in 1..Len(gridOut.rows) :
              gridOut.index[i] = <<gridOut.rows[i].feh, gridOut.rows[i].age>>
        /\ \A i, j \in 1..Len(gridOut.rows) :
              i < j => ~RowLess(gridOut.rows[j], gridOut.rows[i])
        /\ DistinctRows(gridIn) =>
              \A i, j \in 1..Len(gridOut.rows) :
                  i < j => (\/ gridOut.rows[i].feh < gridOut.rows[j].feh
                            \/ /\ gridOut.rows[i].feh = gridOut.rows[j].feh
                               /\ LogLess(gridOut.rows[i].age, gridOut.rows[j].age)
                            \/ /\ gridOut.index[i] = gridOut.index[j]
                               /\ gridOut.rows[i].MMo < gridOut.rows[j].MMo
                            \/ /\ gridOut.index[i] = gridOut.index[j]
                               /\ gridOut.rows[i].MMo = gridOut.rows[j].MMo
                               /\ gridOut.rows[i].EEP < gridOut.rows[j].EEP)
        /\ \A i, j \in 1..Len(gridIn) :
              (gridIn[i].feh = gridIn[j].feh /\ gridIn[i].age = gridIn[j].age)
              <=> (<<gridIn[i].feh, log10(TimesGiga(gridIn[i].age))>>
                   = <<gridIn[j].feh, log10(TimesGiga(gridIn[j].age))>>)

\* Three distinct rows of one isochrone, given out of order, have been
\* sorted and share one index key.
C8_Witness ==
    /\ gridIn = <<GridRow(0, 1000, 95, 4), GridRow(0, 1000, 95, 3), GridRow(0, 1000, 10, 2)>>
    /\ gridOut.kind = "ok"
    /\ gridOut.rows[1].MMo = 10
    /\ gridOut.rows[2].EEP = 3
    /\ gridOut.index[1] = gridOut.index[3]

(***************************************************************************)
(* DartmouthModelGrid.get_filenames                                        *)
(***************************************************************************)
\* ..config.ISOCHRONES
ISOCHRONES == "~/.isochrones"

\* os.path.join
PathJoin(a, c) == a \o "/" \o c

datadir == PathJoin(ISOCHRONES, "dartmouth")

phot_tarball_file(phot) == PathJoin(datadir, phot \o ".tgz")

\* os.path.join(self.datadir, 'isochrones', phot)
TreeDir(phot) == PathJoin(PathJoin(datadir, "isochrones"), phot)

\* The systems whose tarballs the master tarball holds, and the track files
\* a system's tarball holds.
MasterPhots == {"SDSSugriz", "WISE"}
TrackStems == {"fehm05afep0", "fehp02afep0", "fehm05afep2", "fehm05afep0y33"}
TarballMembers(phot) ==
    {TreeDir(phot)} \cup {PathJoin(TreeDir(phot), st \o "." \o phot) : st \in TrackStems}

\* extract_master_tarball: the per-system tarballs appear in datadir.
extract_master_tarball(fs) == fs \cup {phot_tarball_file(p) : p \in MasterPhots}

\* extract_phot_tarball(phot): the parsed tree of the system appears.
extract_phot_tarball(fs, phot) == fs \cup TarballMembers(phot)

\* s contains needle
Contains(s, needle) == \E i \in 1..(Len(s) + 1) : Slice(s, i, Len(needle)) = needle

\* glob.glob('{datadir}/isochrones/{phot}/*{afe}{y}.{phot}*'): the paths
\* of the directory whose base name contains afe + y + '.' + phot.
Glob(fs, phot, afe, y) ==
    {p \in fs :
        /\ StartsWith(p, TreeDir(phot) \o "/")
        /\ LET base == SubSeq(p, Len(TreeDir(phot)) + 2, Len(p))
           IN  ~Contains(base, "/") /\ Contains(base, afe \o y \o "." \o phot)}

MasterStep == "extract_master_tarball"
PhotStep(phot) == "extract_phot_tarball(" \o phot \o ")"

\* The extraction steps with the master tarball unpacked on every miss.
ExtractionStepsAlwaysMaster(fs, phot) ==
    IF TreeDir(phot) \notin fs THEN <<MasterStep, PhotStep(phot)>> ELSE <<>>

\* The extraction steps get_filenames runs, in order.
ExtractionSteps(fs, phot) ==
    IF TreeDir(phot) \notin fs
    THEN (IF phot_tarball_file(phot) \notin fs THEN <<MasterStep>> ELSE <<>>)
         \o <<PhotStep(phot)>>
    ELSE <<>>

\* The file system after the steps have run.
RECURSIVE RunSteps(_, _, _)
RunSteps(fs, phot, steps) ==
    IF steps = <<>> THEN fs
    ELSE RunSteps(IF Head(steps) = MasterStep THEN extract_master_tarball(fs)
                  ELSE extract_phot_tarball(fs, phot),
                  phot, Tail(steps))

NoCall == [kind |-> "no-call"]

\* get_filenames(phot, afe, y): the steps run, the file system left and the
\* list returned, with the arguments and the file system found.
get_filenames(fs, phot, afe, y) ==
    LET steps == ExtractionSteps(fs, phot)
        after == RunSteps(fs, phot, steps)
    IN  [kind |-> "call", phot |-> phot, afe |-> afe, y |-> y, before |-> fs,
         steps |-> steps, after |-> after, files |-> Glob(after, phot, afe, y)]

\* The data directory at the start: for each system, its tarball there or
\* not, and its parsed tree absent, empty or complete.
MaxCalls == 3
TreeStates(phot) == {{}, {TreeDir(phot)}, TarballMembers(phot)}
FileSystems ==
    {t1 \cup t2 \cup z :
        t1 \in TreeStates("SDSSugriz"), t2 \in TreeStates("WISE"),
        z \in SUBSET {phot_tarball_file(p) : p \in MasterPhots}}

FilesInit ==
    /\ fsPaths \in FileSystems
    /\ nCalls = 0
    /\ lastCall = NoCall
    /\ prevCall = NoCall
FilesIdle == fsPaths = {} /\ nCalls = 0 /\ lastCall = NoCall /\ prevCall = NoCall

GetFilenames ==
    \E phot \in MasterPhots, afe \in {"afep0", "afep2"}, y \in {"", "y33"} :
        /\ nCalls < MaxCalls
        /\ nCalls' = nCalls + 1
        /\ lastCall' = get_filenames(fsPaths, phot, afe, y)
        /\ prevCall' = lastCall
        /\ fsPaths' = lastCall'.after
        /\ UNCHANGED notFiles

(***************************************************************************)
(* C7: get_filenames                                                       *)
(***************************************************************************)
\* C7: get_filenames extracts only when the parsed tree is missing; then
\* the master tarball is unpacked first exactly when the system's tarball
\* is absent and the system's tarball is always unpacked after it; a call
\* that follows one that created the tree of the same system extracts
\* nothing and, for the same afe and y, returns the same list.
C7_ExtractOnDemand ==
    lastCall # NoCall =>
        LET tree == "~/.isochrones/dartmouth/isochrones/" \o lastCall.phot
            tgz == "~/.isochrones/dartmouth/" \o lastCall.phot \o ".tgz"
            unpack == "extract_phot_tarball(" \o lastCall.phot \o ")"
        IN  /\ tree \in lastCall.before => lastCall.steps = <<>>
            /\ (tree \notin lastCall.before /\ tgz \in lastCall.before)
                  => lastCall.steps = <<unpack>>
            /\ (tree \notin lastCall.before /\ tgz \notin lastCall.before)
                  => lastCall.steps = <<"extract_master_tarball", unpack>>
            /\ lastCall.steps = <<>> => lastCall.after = lastCall.before
            /\ (prevCall # NoCall /\ prevCall.phot = lastCall.phot /\ prevCall.steps # <<>>)
                  => /\ lastCall.steps = <<>>
                     /\ (prevCall.afe = lastCall.afe /\ prevCall.y = lastCall.y)
                           => lastCall.files = prevCall.files

\* A call that unpacked both tarballs has been repeated, and has returned
\* the two afep0 tracks again without extracting.
C7_Witness ==
    /\ prevCall # NoCall /\ lastCall # NoCall
    /\ prevCall.phot = "WISE" /\ lastCall.phot = "WISE"
    /\ prevCall.afe = "afep0" /\ lastCall.afe = "afep0"
    /\ prevCall.y = "" /\ lastCall.y = ""
    /\ Len(prevCall.steps) = 2
    /\ lastCall.steps = <<>>
    /\ Cardinality(lastCall.files) = 2

(***************************************************************************)
(* tri_filename, write_tri                                                 *)
(***************************************************************************)
\* tri_filename with the y suffix left out.
tri_filename_no_y(afe, y) ==
    PathJoin(ISOCHRONES, "dartmouth" \o (IF afe = "afep0" THEN "" ELSE "_" \o afe) \o ".tri")

tri_filename(afe, y) ==
    LET afe_suffix == IF afe = "afep0" THEN "" ELSE "_" \o afe
        y_suffix == IF y = "" THEN "" ELSE "_" \o y
    IN  PathJoin(ISOCHRONES, "dartmouth" \o afe_suffix \o y_suffix \o ".tri")

\* filename=None
NoFilename == "<None>"

\* The file write_tri writes to.
TriTarget(filename, afe, y) == IF filename = NoFilename THEN tri_filename(afe, y) ELSE filename

\* What write_tri pickles: the triangulation of the grid built for the
\* bands' photometric system, afe and y.
TriContent(afe, y, bands) == [phot |-> get_band(bands[1]).phot, afe |-> afe, y |-> y]

MaxWrites == 2
TriAfes == {"afep0", "afep2", "y33"}
TriYs == {"", "y33", "afep2"}
TriBands == {<<"g">>, <<"W1", "W2">>}
TriFilenames == {NoFilename, "my.tri"}

TriInit == triFiles = {} /\ triWrites = {}
TriIdle == triFiles = {} /\ triWrites = {}

\* write_tri(filename, afe, y, bands): the target file is created or
\* overwritten with the triangulation.
WriteTri ==
    \E filename \in TriFilenames, afe \in TriAfes, y \in TriYs, bands \in TriBands :
        LET target == TriTarget(filename, afe, y)
        IN  /\ Cardinality(triWrites) < MaxWrites
            /\ triFiles' = {f \in triFiles : f.name # target}
                           \cup {[name |-> target, content |-> TriContent(afe, y, bands)]}
            /\ triWrites' = triWrites \cup
                  (IF filename = NoFilename
                   THEN {[name |-> target, content |-> TriContent(afe, y, bands)]}
                   ELSE {})
            /\ UNCHANGED notTri

SuffixClash(c1, c2) ==
    /\ c1.y = "" /\ c1.afe \notin {"", "afep0"}
    /\ c2.afe = "afep0" /\ c2.y = c1.afe

StarModel(samples, bands, ic) == [samples |-> samples, bands |-> bands, ic |-> ic]
NumParams == 3

\* The sample table as it is stored: one flat sequence of values.
RECURSIVE Flatten(_)
Flatten(rows) == IF rows = <<>> THEN <<>> ELSE Head(rows) \o Flatten(Tail(rows))
Unflatten(flat) ==
    [k \in 1..(Len(flat) \div NumParams) |->
        SubSeq(flat, (k - 1) * NumParams + 1, k * NumParams)]

H5Open(handles, f) == handles \cup {f}

\* A close that releases nothing.
H5CloseLeak(handles, f) == handles

H5Close(handles, f) == handles \ {f}

\* mod.save_hdf(filename): the file holds the flat sample table and the
\* metadata, and its handle is closed.
save_hdf(files, handles, mod, f) ==
    [files |-> {x \in files : x.name # f}
               \cup {[name |-> f, table |-> Flatten(mod.samples),
                      bands |-> mod.bands, ic |-> mod.ic]},
     handles |-> H5Close(H5Open(handles, f), f)]

\* StarModel.load_hdf(filename): the model read back, and the handle closed.
load_hdf(files, handles, f) ==
    LET x == CHOOSE x \in files : x.name = f
    IN  [mod |-> StarModel(Unflatten(x.table), x.bands, x.ic),
         handles |-> H5Close(H5Open(handles, f), f)]

\* chainsdir = tempfile.gettempdir()
chainsdir == "/tmp"

\* '{}'.format(r) for a natural number r
RECURSIVE DecimalString(_)
DecimalString(r) ==
    IF r < 10 THEN CharAt("0123456789", r + 1)
    ELSE DecimalString(r \div 10) \o CharAt("0123456789", (r % 10) + 1)

\* os.path.join(chainsdir, '{}.h5'.format(np.random.randint(1000000)))
CheckFilename(r) == PathJoin(chainsdir, DecimalString(r) \o ".h5")

\* len(tb.file._open_files.get_handlers_by_name(filename))
OpenHandlers(handles, f) == Cardinality(handles \cap {f})

MaxSamples == 2
SampleRows == {<<100, 9, 0>>, <<95, 10, -5>>}
SampleTables == UNION {[1..k -> SampleRows] : k \in 0..MaxSamples}
RandInts == {7, 42}

NoModel == [kind |-> "no-model"]

SaveInit ==
    /\ pc = "filename"
    /\ mods \in {<<StarModel(s1, <<"B", "V">>, "dartmouth"), StarModel(s2, <<"B", "V">>, "mist")>> :
                    s1 \in SampleTables, s2 \in SampleTables}
    /\ cur = 1
    /\ h5Name = ""
    /\ h5Files = {}
    /\ h5Open = {}
    /\ newmod = NoModel
SaveIdle ==
    /\ pc = "idle" /\ mods = <<>> /\ cur = 0 /\ h5Name = ""
    /\ h5Files = {} /\ h5Open = {} /\ newmod = NoModel

\* filename = os.path.join(chainsdir, '{}.h5'.format(np.random.randint(1000000)))
ChooseFilename ==
    \E r \in RandInts :
        /\ pc = "filename"
        /\ h5Name' = CheckFilename(r)
        /\ pc' = "save_hdf"
        /\ UNCHANGED <<mods, cur, h5Files, h5Open, newmod>>
        /\ UNCHANGED notSave

\* mod.save_hdf(filename)
SaveHdf ==
    /\ pc = "save_hdf"
    /\ h5Files' = save_hdf(h5Files, h5Open, mods[cur], h5Name).files
    /\ h5Open' = save_hdf(h5Files, h5Open, mods[cur], h5Name).handles
    /\ pc' = "assert_closed_after_save"
    /\ UNCHANGED <<mods, cur, h5Name, newmod>>
    /\ UNCHANGED notSave

\* assert len(tb.file._open_files.get_handlers_by_name(filename)) == 0
AssertClosedAfterSave ==
    /\ pc = "assert_closed_after_save"
    /\ pc' = IF OpenHandlers(h5Open, h5Name) = 0 THEN "load_hdf" ELSE "AssertionError"
    /\ UNCHANGED <<mods, cur, h5Name, h5Files, h5Open, newmod>>
    /\ UNCHANGED notSave

\* newmod = StarModel.load_hdf(filename)
LoadHdf ==
    /\ pc = "load_hdf"
    /\ newmod' = load_hdf(h5Files, h5Open, h5Name).mod
    /\ h5Open' = load_hdf(h5Files, h5Open, h5Name).handles
    /\ pc' = "assert_closed_after_load"
    /\ UNCHANGED <<mods, cur, h5Name, h5Files>>
    /\ UNCHANGED notSave

\* assert len(tb.file._open_files.get_handlers_by_name(filename)) == 0
AssertClosedAfterLoad ==
    /\ pc = "assert_closed_after_load"
    /\ pc' = IF OpenHandlers(h5Open, h5Name) = 0 THEN "assert_samples" ELSE "AssertionError"
    /\ UNCHANGED <<mods, cur, h5Name, h5Files, h5Open, newmod>>
    /\ UNCHANGED notSave

\* assert np.allclose(mod.samples, newmod.samples)
AssertSamples ==
    /\ pc = "assert_samples"
    /\ pc' = IF mods[cur].samples = newmod.samples THEN "assert_bands" ELSE "AssertionError"
    /\ UNCHANGED <<mods, cur, h5Name, h5Files, h5Open, newmod>>
    /\ UNCHANGED notSave

\* assert mod.ic.bands == newmod.ic.bands
AssertBands ==
    /\ pc = "assert_bands"
    /\ pc' = IF mods[cur].bands = newmod.bands THEN "remove" ELSE "AssertionError"
    /\ UNCHANGED <<mods, cur, h5Name, h5Files, h5Open, newmod>>
    /\ UNCHANGED notSave

\* os.remove(filename), and test_fitting goes on to _check_saving(mod_mist)
RemoveFile ==
    /\ pc = "remove"
    /\ h5Files' = {x \in h5Files : x.name # h5Name}
    /\ IF cur < Len(mods)
       THEN cur' = cur + 1 /\ pc' = "filename" /\ newmod' = NoModel
       ELSE cur' = cur /\ pc' = "done" /\ newmod' = newmod
    /\ UNCHANGED <<mods, h5Name, h5Open>>
    /\ UNCHANGED notSave

(***************************************************************************)
(* C4: the save / load round trip                                          *)
(***************************************************************************)
\* C4: after save_hdf then load_hdf the loaded model has the saved sample
\* table and the saved band list, and after each of the two operations no
\* handle on the file is open (so no assertion of _check_saving fails).
C4_SaveLoadRoundTrip ==
    /\ pc \in {"assert_closed_after_load", "assert_samples", "assert_bands", "remove"}
          => /\ newmod.samples = mods[cur].samples
             /\ newmod.bands = mods[cur].bands
    /\ pc \in {"assert_closed_after_save", "assert_closed_after_load"} => h5Name \notin h5Open
    /\ pc # "AssertionError"

\* The second model, with two samples, has been saved and loaded back.
C4_Witness ==
    /\ pc = "assert_closed_after_load"
    /\ cur = 2
    /\ Len(mods[2].samples) = 2
    /\ newmod = mods[2]
    /\ h5Open = {}

(***************************************************************************)
(* The specifications, one per operation under study                       *)
(***************************************************************************)
InitBand ==
    BandInit /\ FehIdle /\ DfIdle /\ GridIdle /\ FilesIdle /\ TriIdle /\ SaveIdle
NextBand == GetBand
SpecBand == InitBand /\ [][NextBand]_vars

InitFeh ==
    FehInit /\ BandIdle /\ DfIdle /\ GridIdle /\ FilesIdle /\ TriIdle /\ SaveIdle
NextFeh == GetFeh
SpecFeh == InitFeh /\ [][NextFeh]_vars

InitDf ==
    DfInit /\ BandIdle /\ FehIdle /\ GridIdle /\ FilesIdle /\ TriIdle /\ SaveIdle
NextDf == ToDf
SpecDf == InitDf /\ [][NextDf]_vars

InitGrid ==
    GridInit /\ BandIdle /\ FehIdle /\ DfIdle /\ FilesIdle /\ TriIdle /\ SaveIdle
NextGrid == DfAll
SpecGrid == InitGrid /\ [][NextGrid]_vars

InitFiles ==
    FilesInit /\ BandIdle /\ FehIdle /\ DfIdle /\ GridIdle /\ TriIdle /\ SaveIdle
NextFiles == GetFilenames
SpecFiles == InitFiles /\ [][NextFiles]_vars

InitTri ==
    TriInit /\ BandIdle /\ FehIdle /\ DfIdle /\ GridIdle /\ FilesIdle /\ SaveIdle
NextTri == WriteTri
SpecTri == InitTri /\ [][NextTri]_vars

InitSave ==
    SaveInit /\ BandIdle /\ FehIdle /\ DfIdle /\ GridIdle /\ FilesIdle /\ TriIdle
NextSave ==
    \/ ChooseFilename
    \/ SaveHdf
    \/ AssertClosedAfterSave
    \/ LoadHdf
    \/ AssertClosedAfterLoad
    \/ AssertSamples
    \/ AssertBands
    \/ RemoveFile
SpecSave == InitSave /\ [][NextSave]_vars

=============================================================================
